---- MODULE Spec2Model ----
(***************************************************************************)
(* Chaum-Pedersen zero-knowledge proof (src/src/lib.rs).                   *)
(*                                                                         *)
(* The library is a struct ZKP {p, q, alpha, beta} with public fields and  *)
(* three arithmetic operations over num_bigint::BigUint: exponetiate,      *)
(* solve and verify.  BigUint is an arbitrary-precision non-negative       *)
(* integer, modelled by the naturals.  BigUint::modpow panics on a zero    *)
(* modulus; a panic is the result value Panic, and a returned value v is   *)
(* Ok(v).                                                                  *)
(***************************************************************************)
EXTENDS Integers, FiniteSets, Sequences, TLC

VARIABLES
    zkp,    \* the ZKP struct value, or NoZKP before it is constructed
    sess,   \* proof sessions: session id -> the session's local values
    fn,     \* the function of a direct call: "none" until it is called
    args,   \* the arguments of the direct call
    ret     \* the result of the direct call

vars == <<zkp, sess, fn, args, ret>>

(***************************************************************************)
(* Bounds of the model.                                                    *)
(***************************************************************************)
MaxQ == 6          \* solve is called with q in 1..MaxQ
MaxArg == 7        \* ... and k, c, x (and exponetiate's n, exponent) in 0..MaxArg
MaxMod == 4        \* moduli of exponetiate, verify and the struct literal: 0..MaxMod
MaxVal == 3        \* verify's operands and generators: 0..MaxVal
NumSessions == 2   \* concurrent proof sessions sharing one ZKP value

(***************************************************************************)
(* Results: a call returns a value or panics.                              *)
(***************************************************************************)
Ok(v) == [panic |-> FALSE, val |-> v]
Panic == [panic |-> TRUE]
NoRet == [panic |-> FALSE]
NoZKP == << >>

(***************************************************************************)
(* BigUint::modpow(exponent, modulus): square-and-multiply, every product  *)
(* reduced; the result is below the modulus (so it is 0 for modulus 1,     *)
(* whatever the exponent); a zero modulus panics.                          *)
(***************************************************************************)
RECURSIVE PowMod(_, _, _)
PowMod(b, e, m) ==
    IF e = 0 THEN 1 % m
    ELSE LET h == PowMod(b, e \div 2, m)
             sq == (h * h) % m
         IN  IF e % 2 = 0 THEN sq ELSE (sq * (b % m)) % m

modpow(b, e, m) == IF m = 0 THEN Panic ELSE Ok(PowMod(b, e, m))

\* A mutant of exponetiate: base and exponent swapped.
exponetiateSwapped(n, exponent, p) == modpow(exponent, n, p)

\* pub fn exponetiate(n, exponent, p): n.modpow(exponent, p)
exponetiate(n, exponent, p) == modpow(n, exponent, p)

\* A mutant of solve: the k < c*x branch forgets to subtract from q.
solveNoWrap(self, k, c, x) ==
    IF k >= c * x
    THEN modpow(k - c * x, 1, self.q)
    ELSE modpow(c * x - k, 1, self.q)

\* A mutant of solve: the product c * x is replaced by c.
solveNoProduct(self, k, c, x) ==
    IF k >= c
    THEN modpow(k - c, 1, self.q)
    ELSE LET m == modpow(c - k, 1, self.q)
         IN  IF m.panic THEN Panic ELSE Ok(self.q - m.val)

\* pub fn solve(&self, k, c, x)
solve(self, k, c, x) ==
    IF k >= c * x
    THEN modpow(k - c * x, 1, self.q)
    ELSE LET m == modpow(c * x - k, 1, self.q)
         IN  IF m.panic THEN Panic ELSE Ok(self.q - m.val)

\* A mutant of verify: the products are compared unreduced.
verifyNoReduce(self, r1, r2, y1, y2, s, c) ==
    LET a1 == modpow(self.alpha, s, self.p)
        b1 == modpow(y1, c, self.p)
        a2 == modpow(self.beta, s, self.p)
        b2 == modpow(y2, c, self.p)
    IN  IF a1.panic \/ b1.panic \/ a2.panic \/ b2.panic THEN Panic
        ELSE Ok(r1 = a1.val * b1.val /\ r2 = a2.val * b2.val)

\* pub fn verify(&self, r1, r2, y1, y2, s, c)
verify(self, r1, r2, y1, y2, s, c) ==
    LET a1 == modpow(self.alpha, s, self.p)
        b1 == modpow(y1, c, self.p)
        a2 == modpow(self.beta, s, self.p)
        b2 == modpow(y2, c, self.p)
    IN  IF a1.panic \/ b1.panic \/ a2.panic \/ b2.panic THEN Panic
        ELSE LET m1 == modpow(a1.val * b1.val, 1, self.p)
                 m2 == modpow(a2.val * b2.val, 1, self.p)
                 cond1 == r1 = m1.val
                 cond2 == r2 = m2.val
             IN  Ok(cond1 /\ cond2)

(***************************************************************************)
(* The parameters of the tests: p = 23, q = 11, alpha = 4, beta = 9.       *)
(***************************************************************************)
ToyGroup == [p |-> 23, q |-> 11, alpha |-> 4, beta |-> 9]

\* A smaller value of the struct: the subgroup of order 3 modulo 7.
SmallGroup == [p |-> 7, q |-> 3, alpha |-> 2, beta |-> 4]

\* ZKP values the proof sessions run over: the tests' parameters, another
\* pair of generators of the same subgroup, and smaller subgroups of prime
\* order.
Groups ==
    {ToyGroup, SmallGroup,
     [p |-> 11, q |-> 5, alpha |-> 3, beta |-> 4],
     [p |-> 13, q |-> 3, alpha |-> 3, beta |-> 9],
     [p |-> 23, q |-> 11, alpha |-> 2, beta |-> 3]}

(***************************************************************************)
(* Direct calls of the pure functions on drawn arguments.                  *)
(***************************************************************************)
Sessions == 1 .. NumSessions

SessionStart ==
    [pc |-> "start", x |-> 0, k |-> 0, c |-> 0, y1 |-> 0, y2 |-> 0,
     r1 |-> 0, r2 |-> 0, xs |-> 0, s |-> 0, sv |-> 0, cv |-> 0,
     c2 |-> 0, s2 |-> 0, result |-> Ok(FALSE)]

SolveArgs == [k : 0 .. MaxArg, c : 0 .. MaxArg, x : 0 .. MaxArg]

CallSolve ==
    /\ zkp # NoZKP
    /\ fn = "none"
    /\ DOMAIN args = {"k", "c", "x"}
    /\ fn' = "solve"
    /\ ret' = solve(zkp, args.k, args.c, args.x)
    /\ UNCHANGED <<zkp, sess, args>>

ExpArgs == [n : 0 .. MaxArg, exponent : 0 .. MaxArg, p : 0 .. MaxArg]

CallExponetiate ==
    /\ fn = "none"
    /\ DOMAIN args = {"n", "exponent", "p"}
    /\ fn' = "exponetiate"
    /\ ret' = exponetiate(args.n, args.exponent, args.p)
    /\ UNCHANGED <<zkp, sess, args>>

VerifyArgs ==
    [r1 : 0 .. MaxVal, r2 : 0 .. MaxVal, y1 : 0 .. MaxVal, y2 : 0 .. MaxVal,
     s : 0 .. MaxVal, c : 0 .. MaxVal]

CallVerify ==
    /\ zkp # NoZKP
    /\ fn = "none"
    /\ DOMAIN args = {"r1", "r2", "y1", "y2", "s", "c"}
    /\ fn' = "verify"
    /\ ret' = verify(zkp, args.r1, args.r2, args.y1, args.y2, args.s, args.c)
    /\ UNCHANGED <<zkp, sess, args>>

\* let zkp = ZKP { p, q, alpha, beta }: a struct literal over public fields;
\* no constructor stands between the caller and the value.
New ==
    /\ zkp = NoZKP
    /\ \E p \in 0 .. MaxMod, q \in 0 .. MaxMod,
          alpha \in 0 .. MaxVal, beta \in 0 .. MaxVal :
          zkp' = [p |-> p, q |-> q, alpha |-> alpha, beta |-> beta]
    /\ UNCHANGED <<sess, fn, args, ret>>

\* The arguments of test_example's calls of solve and verify.
TestSolveArgs == [k |-> 7, c |-> 4, x |-> 6]
TestVerifyArgs == [r1 |-> 8, r2 |-> 4, y1 |-> 2, y2 |-> 3, s |-> 5, c |-> 4]

(***************************************************************************)
(* Proof sessions: the sequence of calls the tests make, one session's     *)
(* values local to it.  A session draws its secret, its commitment         *)
(* exponent and its challenge below q (generate_random_below).             *)
(***************************************************************************)
\* pub fn generate_random_below(bound): some value in [0, bound)
generate_random_below(bound) == 0 .. (bound - 1)

\* let x = ...; y1 = exponetiate(alpha, x, p); y2 = exponetiate(beta, x, p)
Keys(i) ==
    /\ zkp # NoZKP
    /\ sess[i].pc = "start"
    /\ \E x \in generate_random_below(zkp.q) :
          sess' = [sess EXCEPT ![i] =
                     [@ EXCEPT !.pc = "keyed", !.x = x,
                               !.y1 = exponetiate(zkp.alpha, x, zkp.p).val,
                               !.y2 = exponetiate(zkp.beta, x, zkp.p).val]]
    /\ UNCHANGED <<zkp, fn, args, ret>>

\* let k = ...; r1 = exponetiate(alpha, k, p); r2 = exponetiate(beta, k, p)
Commit(i) ==
    /\ sess[i].pc = "keyed"
    /\ \E k \in generate_random_below(zkp.q) :
          sess' = [sess EXCEPT ![i] =
                     [@ EXCEPT !.pc = "committed", !.k = k,
                               !.r1 = exponetiate(zkp.alpha, k, zkp.p).val,
                               !.r2 = exponetiate(zkp.beta, k, zkp.p).val]]
    /\ UNCHANGED <<zkp, fn, args, ret>>

\* let c = ZKP::generate_random_below(&q)
Challenge(i) ==
    /\ sess[i].pc = "committed"
    /\ \E c \in generate_random_below(zkp.q) :
          sess' = [sess EXCEPT ![i] = [@ EXCEPT !.pc = "challenged", !.c = c]]
    /\ UNCHANGED <<zkp, fn, args, ret>>

\* A mutant of Solve: the call reduces the shared q to the response.
SolveWritesQ(i) ==
    /\ sess[i].pc = "challenged"
    /\ LET s == solve(zkp, sess[i].k, sess[i].c, sess[i].x).val
       IN  /\ sess' = [sess EXCEPT ![i] =
                         [@ EXCEPT !.pc = "solved", !.xs = sess[i].x, !.s = s]]
           /\ zkp' = [zkp EXCEPT !.q = IF s = 0 THEN zkp.q ELSE s]
    /\ UNCHANGED <<fn, args, ret>>

\* let s = zkp.solve(&k, &c, &x)
Solve(i) ==
    /\ sess[i].pc = "challenged"
    /\ sess' = [sess EXCEPT ![i] =
                  [@ EXCEPT !.pc = "solved", !.xs = sess[i].x,
                            !.s = solve(zkp, sess[i].k, sess[i].c, sess[i].x).val]]
    /\ UNCHANGED <<zkp, fn, args, ret>>

\* let s_fake = zkp.solve(&k, &c, &x_fake), x_fake another secret below q
SolveFake(i) ==
    /\ sess[i].pc = "challenged"
    /\ \E x_fake \in generate_random_below(zkp.q) \ {sess[i].x} :
          sess' = [sess EXCEPT ![i] =
                     [@ EXCEPT !.pc = "solved", !.xs = x_fake,
                               !.s = solve(zkp, sess[i].k, sess[i].c, x_fake).val]]
    /\ UNCHANGED <<zkp, fn, args, ret>>

\* zkp.verify(&r1, &r2, &y1, &y2, &s, &c) on the session's own values
Verify(i) ==
    /\ sess[i].pc = "solved"
    /\ sess' = [sess EXCEPT ![i] =
                  [@ EXCEPT !.pc = "verified", !.sv = sess[i].s, !.cv = sess[i].c,
                            !.result = verify(zkp, sess[i].r1, sess[i].r2, sess[i].y1,
                                              sess[i].y2, sess[i].s, sess[i].c)]]
    /\ UNCHANGED <<zkp, fn, args, ret>>

\* verify on an honest proof whose response alone is replaced by another
\* value below q
VerifyOtherS(i) ==
    /\ sess[i].pc = "solved"
    /\ sess[i].xs = sess[i].x
    /\ \E s \in generate_random_below(zkp.q) \ {sess[i].s} :
          sess' = [sess EXCEPT ![i] =
                     [@ EXCEPT !.pc = "verified", !.sv = s, !.cv = sess[i].c,
                               !.result = verify(zkp, sess[i].r1, sess[i].r2, sess[i].y1,
                                                 sess[i].y2, s, sess[i].c)]]
    /\ UNCHANGED <<zkp, fn, args, ret>>

\* verify on an honest proof whose challenge alone is replaced by another
\* value below q
VerifyOtherC(i) ==
    /\ sess[i].pc = "solved"
    /\ sess[i].xs = sess[i].x
    /\ \E c \in generate_random_below(zkp.q) \ {sess[i].c} :
          sess' = [sess EXCEPT ![i] =
                     [@ EXCEPT !.pc = "verified", !.sv = sess[i].s, !.cv = c,
                               !.result = verify(zkp, sess[i].r1, sess[i].r2, sess[i].y1,
                                                 sess[i].y2, sess[i].s, c)]]
    /\ UNCHANGED <<zkp, fn, args, ret>>

\* solve called a second time with the same k and x and another challenge:
\* k is a plain argument, and nothing in solve remembers that it was used.
SolveAgain(i) ==
    /\ sess[i].pc = "solved"
    /\ sess[i].xs = sess[i].x
    /\ \E c2 \in generate_random_below(zkp.q) \ {sess[i].c} :
          sess' = [sess EXCEPT ![i] =
                     [@ EXCEPT !.pc = "reused", !.c2 = c2,
                               !.s2 = solve(zkp, sess[i].k, c2, sess[i].x).val]]
    /\ UNCHANGED <<zkp, fn, args, ret>>

InitSolve ==
    /\ zkp \in {[ToyGroup EXCEPT !.q = n] : n \in 1 .. MaxQ}
    /\ sess = [i \in {1} |-> SessionStart]
    /\ fn = "none"
    /\ args \in SolveArgs
    /\ ret = NoRet

NextSolve == CallSolve

SpecSolve == InitSolve /\ [][NextSolve]_vars

InitExp ==
    /\ zkp = ToyGroup
    /\ sess = [i \in {1} |-> SessionStart]
    /\ fn = "none"
    /\ args \in ExpArgs
    /\ ret = NoRet

NextExp == CallExponetiate

SpecExp == InitExp /\ [][NextExp]_vars

InitVerify ==
    /\ zkp \in [p : 2 .. MaxMod, q : {1}, alpha : 0 .. MaxVal, beta : 0 .. MaxVal]
    /\ sess = [i \in {1} |-> SessionStart]
    /\ fn = "none"
    /\ args \in VerifyArgs
    /\ ret = NoRet

NextVerify == CallVerify

SpecVerify == InitVerify /\ [][NextVerify]_vars

Init ==
    /\ zkp = NoZKP
    /\ sess = [i \in {1} |-> SessionStart]
    /\ fn = "none"
    /\ args \in {TestSolveArgs, TestVerifyArgs}
    /\ ret = NoRet

Next == New \/ CallSolve \/ CallVerify

Spec == Init /\ [][Next]_vars

InitProof ==
    /\ zkp \in Groups
    /\ sess = [i \in {1} |-> SessionStart]
    /\ fn = "none"
    /\ args = TestSolveArgs
    /\ ret = NoRet

NextProof ==
    \/ \E i \in DOMAIN sess : Keys(i)
    \/ \E i \in DOMAIN sess : Commit(i)
    \/ \E i \in DOMAIN sess : Challenge(i)
    \/ \E i \in DOMAIN sess : Solve(i)
    \/ \E i \in DOMAIN sess : SolveFake(i)
    \/ \E i \in DOMAIN sess : Verify(i)
    \/ \E i \in DOMAIN sess : VerifyOtherS(i)
    \/ \E i \in DOMAIN sess : VerifyOtherC(i)
    \/ \E i \in DOMAIN sess : SolveAgain(i)

SpecProof == InitProof /\ [][NextProof]_vars

InitSessions ==
    /\ zkp = SmallGroup
    /\ sess = [i \in Sessions |-> SessionStart]
    /\ fn = "none"
    /\ args = TestSolveArgs
    /\ ret = NoRet

NextSessions ==
    \/ \E i \in DOMAIN sess : Keys(i)
    \/ \E i \in DOMAIN sess : Commit(i)
    \/ \E i \in DOMAIN sess : Challenge(i)
    \/ \E i \in DOMAIN sess : Solve(i)
    \/ \E i \in DOMAIN sess : Verify(i)

SpecSessions == InitSessions /\ [][NextSessions]_vars

(***************************************************************************)
(* What the claims speak of.                                               *)
(***************************************************************************)
IsPrime(n) == n > 1 /\ \A d \in 2 .. (n - 1) : n % d # 0

\* Plain exponentiation, the arithmetic the claims are stated in (b^0 = 1).
Power(b, e) == IF e = 0 THEN 1 ELSE b ^ e

\* Valid parameters as section 7 of the specification lists them.
ValidParams(g) ==
    /\ IsPrime(g.p)
    /\ g.q > 0
    /\ (g.p - 1) % g.q = 0
    /\ g.alpha \in 1 .. (g.p - 1)
    /\ g.beta \in 1 .. (g.p - 1)

\* b^e mod m by repeated multiplication.
RECURSIVE ModExp(_, _, _)
ModExp(b, e, m) == IF e = 0 THEN 1 % m ELSE (b * ModExp(b, e - 1, m)) % m

\* a has multiplicative order n modulo m.
HasOrder(a, n, m) ==
    /\ ModExp(a, n, m) = 1
    /\ \A d \in 1 .. (n - 1) : ModExp(a, d, m) # 1

\* Group parameters as section 3 of the specification requires them: p prime,
\* q prime, alpha and beta of order q modulo p.
ValidGroup(g) ==
    /\ IsPrime(g.p)
    /\ IsPrime(g.q)
    /\ HasOrder(g.alpha, g.q, g.p)
    /\ HasOrder(g.beta, g.q, g.p)

\* The inverse of a modulo the prime n (a not a multiple of n).
Inverse(a, n) == CHOOSE b \in 1 .. (n - 1) : (a * b) % n = 1

\* Session i has verified the proof it derived honestly from its own secret.
HonestVerified(i) ==
    /\ sess[i].pc = "verified"
    /\ sess[i].xs = sess[i].x
    /\ sess[i].sv = sess[i].s
    /\ sess[i].cv = sess[i].c

\* Session i has verified a response solved from another secret than x.
FakeVerified(i) ==
    /\ sess[i].pc = "verified"
    /\ sess[i].xs # sess[i].x
    /\ sess[i].sv = sess[i].s
    /\ sess[i].cv = sess[i].c

\* Session i has verified an honest proof with s alone, or c alone, replaced.
PerturbedVerified(i) ==
    /\ sess[i].pc = "verified"
    /\ sess[i].xs = sess[i].x
    /\ \/ sess[i].sv # sess[i].s /\ sess[i].cv = sess[i].c
       \/ sess[i].sv = sess[i].s /\ sess[i].cv # sess[i].c

\* Every stored response and verdict is the function of the session's own
\* values and the parameters.
ResultsOwn ==
    \A i \in DOMAIN sess :
        /\ sess[i].pc \in {"solved", "verified"} =>
              sess[i].s = solve(zkp, sess[i].k, sess[i].c, sess[i].x).val
        /\ sess[i].pc = "verified" =>
              sess[i].result = verify(zkp, sess[i].r1, sess[i].r2, sess[i].y1,
                                      sess[i].y2, sess[i].s, sess[i].c)

\* C1: for every q > 0 and all k, c, x, solve returns a value s with 0 <= s < q
\* (0, not q, when k < c*x and q divides c*x - k).
C1_SolveInRange ==
    (fn = "solve" /\ zkp.q > 0) =>
        (~ret.panic /\ 0 <= ret.val /\ ret.val < zkp.q)

\* C10: for every q > 0 and all k, c, x, the result s of solve satisfies
\* (s + c*x) mod q = k mod q, in both branches.
C10_SolveCongruent ==
    (fn = "solve" /\ zkp.q > 0) =>
        (~ret.panic /\ (ret.val + args.c * args.x) % zkp.q = args.k % zkp.q)

\* C10 witness: solve has run in the k < c*x branch with q dividing c*x - k,
\* returning q itself.
C10_Witness ==
    /\ fn = "solve"
    /\ args.k < args.c * args.x
    /\ ~ret.panic
    /\ ret.val = zkp.q
    /\ args.k >= zkp.q
\* C4: parameters with a non-prime p, with q not dividing p - 1 or with a
\* generator outside [1, p) are refused at construction, so solve and verify
\* are only ever called on valid parameters.
C4_InvalidRefused ==
    (zkp # NoZKP /\ fn \in {"solve", "verify"}) => ValidParams(zkp)

\* C5: for every p > 1 and all operands (also those >= p), verify does not
\* panic and returns true exactly when r1 = (alpha^s * y1^c) mod p and
\* r2 = (beta^s * y2^c) mod p.
C5_VerifyExact ==
    (fn = "verify" /\ zkp.p > 1) =>
        /\ ~ret.panic
        /\ ret.val =
             (/\ args.r1 = (Power(zkp.alpha, args.s) * Power(args.y1, args.c)) % zkp.p
              /\ args.r2 = (Power(zkp.beta, args.s) * Power(args.y2, args.c)) % zkp.p)

\* C5 witness: verify has accepted operands at or above p whose unreduced
\* product exceeds p.
C5_Witness ==
    /\ fn = "verify"
    /\ ~ret.panic
    /\ ret.val
    /\ Power(zkp.alpha, args.s) * Power(args.y1, args.c) > zkp.p
    /\ args.y1 >= zkp.p
    /\ args.s > 1

\* C7 as stated: exponetiate(n, 0, p) returns 1 for every n and every modulus p.
C7_ExpZeroAnyModulus ==
    (fn = "exponetiate" /\ args.exponent = 0) => (~ret.panic /\ ret.val = 1)

\* C7 amended: exponetiate(n, 0, p) returns 1 for every n and every modulus p > 1.
C7_ExpZero ==
    (fn = "exponetiate" /\ args.exponent = 0 /\ args.p > 1) =>
        (~ret.panic /\ ret.val = 1)

\* C7 witness: exponetiate has been called with exponent 0, a base above 1 and
\* a modulus above 1.
C7_Witness ==
    /\ fn = "exponetiate"
    /\ args.exponent = 0
    /\ args.n > 1
    /\ args.p > 1
    /\ ~ret.panic
\* C2: completeness: over valid group parameters, the proof derived honestly
\* from x, k, c in [0, q) is accepted by verify.
C2_Complete ==
    \A i \in DOMAIN sess :
        (ValidGroup(zkp) /\ HonestVerified(i)) =>
            (~sess[i].result.panic /\ sess[i].result.val)

\* C2 witness: an honest proof has been verified whose response came from the
\* k < c*x branch of solve.
C2_Witness ==
    \E i \in DOMAIN sess :
        /\ HonestVerified(i)
        /\ zkp = ToyGroup
        /\ sess[i].k < sess[i].c * sess[i].x
        /\ sess[i].result.val

\* C3 as stated: over valid group parameters, a response solved from any
\* x_fake # x is rejected by verify, for all x, x_fake, k, c in [0, q).
C3_FakeRejectedAnyChallenge ==
    \A i \in DOMAIN sess :
        (ValidGroup(zkp) /\ FakeVerified(i)) =>
            (~sess[i].result.panic /\ ~sess[i].result.val)

\* C3 amended: over valid group parameters, a response solved from any
\* x_fake # x is rejected by verify, for all x, x_fake, k in [0, q) and every
\* challenge c in [1, q).
C3_FakeRejected ==
    \A i \in DOMAIN sess :
        (ValidGroup(zkp) /\ FakeVerified(i) /\ sess[i].c # 0) =>
            (~sess[i].result.panic /\ ~sess[i].result.val)

\* C3 witness: test_example's case (x = 6, k = 7, c = 4, x_fake = 7) has been
\* verified and rejected.
C3_Witness ==
    \E i \in DOMAIN sess :
        /\ FakeVerified(i)
        /\ zkp = ToyGroup
        /\ sess[i].x = 6 /\ sess[i].k = 7 /\ sess[i].c = 4 /\ sess[i].xs = 7
        /\ ~sess[i].result.val

\* C6: in the toy group, with a secret x in [1, q), an honest proof with s
\* alone replaced by another value of [0, q), or c alone replaced by another
\* value of [0, q), is rejected by verify.
C6_PerturbedRejected ==
    \A i \in DOMAIN sess :
        (zkp = ToyGroup /\ sess[i].x >= 1 /\ PerturbedVerified(i)) =>
            (~sess[i].result.panic /\ ~sess[i].result.val)

\* C8: whatever the interleaving of the sessions' calls, no call changes
\* p, q, alpha or beta, a call changes the values of its own session only,
\* and every session's response and verdict are those its own values give.
C8_SessionsIsolated ==
    [][/\ zkp' = zkp
       /\ \A i, j \in DOMAIN sess :
             (i # j /\ sess'[i] # sess[i]) => sess'[j] = sess[j]
       /\ ResultsOwn']_vars

\* C8 witness: two sessions with different values are in flight at once, one
\* verified and accepted, the other solved and not yet verified.
C8_Witness ==
    \E i, j \in DOMAIN sess :
        /\ i # j
        /\ sess[i].pc = "verified" /\ sess[i].result.val
        /\ sess[j].pc = "solved"
        /\ sess[i].k # sess[j].k
        /\ sess[i].x # sess[j].x
        /\ sess[i].s # sess[j].s

\* C9: for prime q, two responses s1, s2 solved from the same k and x under
\* challenges c1 # c2 give the secret: x = (s1 - s2) * (c2 - c1)^(-1) mod q.
C9_ReuseLeaks ==
    \A i \in DOMAIN sess :
        (sess[i].pc = "reused" /\ IsPrime(zkp.q)) =>
            sess[i].x =
                (((sess[i].s - sess[i].s2) % zkp.q)
                    * Inverse((sess[i].c2 - sess[i].c) % zkp.q, zkp.q)) % zkp.q

\* C9 witness: solve has been called twice with the same k, under different
\* challenges, for a nonzero secret, the first response being q itself.
C9_Witness ==
    \E i \in DOMAIN sess :
        /\ sess[i].pc = "reused"
        /\ sess[i].c2 # sess[i].c
        /\ sess[i].x > 0
        /\ sess[i].s = zkp.q
        /\ sess[i].s2 > 0
====
